---- MODULE Spec2Model ----
(***************************************************************************)
(* A model of the Dynamixel servo handle of servo.go: the control table    *)
(* cache, the identity, the shadow status return level, and the register   *)
(* getters and setters that talk to the device through a Networker.        *)
(*                                                                         *)
(* The Networker (transport) is an external collaborator: every call made  *)
(* on it is recorded in `calls`, and its answer is an input of the action. *)
(***************************************************************************)
EXTENDS Integers, Sequences, FiniteSets, TLC

VARIABLES
    Ident,              \* servo.Ident
    statusReturnLevel,  \* servo.statusReturnLevel
    cache,              \* servo.cache, indexed 0..tableSize-1
    op,                 \* the last operation called: [name, reg, arg]
    ret,                \* what it returned: [err, val]
    calls,              \* the transport reads and writes it issued, in order
    logged,             \* whether it called Network.Log
    old,                \* the handle before it
    nops,               \* number of operations called since construction
    zeroAngle,          \* servo.zeroAngle, in whole degrees
    hist                \* what the successful SetStatusReturnLevel calls so
                        \* far amount to: [silenced, restored]

vars == <<Ident, statusReturnLevel, cache, op, ret, calls, logged, old, nops,
          zeroAngle, hist>>

-----------------------------------------------------------------------------
(* Bounds of the model *)

\* Number of operations called on the handle after construction.
MaxOps == 2

\* Number of operations in the runs that follow the status return level
\* through several changes (SpecLevel).
MaxLevelOps == 4

\* Number of operations in the runs of the angle interface (SpecMove).
MaxMoveOps == 2

\* The angles given to MoveTo and normalizeAngle reach from
\* -90 * MaxAngleSteps - 1 to 90 * MaxAngleSteps + 1 degrees.
MaxAngleSteps == 6

-----------------------------------------------------------------------------
(* Constants of servo.go *)

tableSize == 50

addrID == 3
addrStatusReturnLevel == 16
addrGoalPosition == 30
addrTorqueLimit == 34

maxSpeed == 1023

\* access modes of a register
ro == "ro"
rw == "rw"

\* The error values the handle returns. NoError is Go's nil.
NoError == "nil"
ErrTransport == "transport error"
ErrTableSize == "invalid control table size"
ErrRegLength == "invalid register length"
ErrStatusZero == "can't READ while Status Return Level is zero"
ErrByteCount == "expected n bytes, got m"
ErrReadOnly == "can't write to a read-only register"
ErrTooLow == "value too low"
ErrTooHigh == "value too high"
ErrGoalRange == "goal position out of range"
ErrSpeedRange == "moving speed out of range"
ErrLockValue == "invalid lock value (must be zero or one)"
ErrLocked == "EEPROM can't be unlocked; must be power-cycled"
ErrTorqueRange == "torque limit out of range"
ErrLevelValue == "invalid Status Return Level value"
ErrIdentValue == "invalid ID (must be 0-252)"

-----------------------------------------------------------------------------
(* Byte helpers and the register catalog *)

\* low(i): the low byte of an int (two's complement, so -1 gives 255).
low(i) == i % 256

\* high(i): the second byte of an int.
high(i) == (i \div 256) % 256

\* btoi(b): a bool as 0 or 1.
btoi(b) == IF b THEN 1 ELSE 0

Reg(a, l, acc, c, mn, mx) ==
    [address |-> a, length |-> l, access |-> acc, cacheable |-> c,
     min |-> mn, max |-> mx]

\* The catalog of register descriptors the named accessors look up.
\* EEPROM configuration is cacheable, RAM and live state is not.
registers ==
    [ modelNumber        |-> Reg(0,  2, ro, TRUE,  0, 0),
      firmwareVersion    |-> Reg(2,  1, ro, TRUE,  0, 0),
      returnDelayTime    |-> Reg(5,  1, rw, TRUE,  0, 254),
      cwAngleLimit       |-> Reg(6,  2, rw, TRUE,  0, 1023),
      torqueEnable       |-> Reg(24, 1, rw, FALSE, 0, 1),
      led                |-> Reg(25, 1, rw, FALSE, 0, 1),
      goalPosition       |-> Reg(30, 2, rw, FALSE, 0, 1023),
      movingSpeed        |-> Reg(32, 2, rw, FALSE, 0, 1023),
      presentPosition    |-> Reg(36, 2, ro, FALSE, 0, 0),
      presentTemperature |-> Reg(43, 1, ro, FALSE, 0, 0),
      lock               |-> Reg(47, 1, rw, FALSE, 0, 1) ]

RegNames == DOMAIN registers

\* Descriptors whose length is neither 1 nor 2 (a programming error the
\* accessors still have to reject).
BadRegisters ==
    { Reg(40, 3, rw, FALSE, 0, 1023), Reg(8, 0, rw, TRUE, 0, 255) }

\* Every descriptor getRegister and setRegister are called with.
Registers == { registers[n] : n \in RegNames } \cup BadRegisters

NoReg == Reg(-1, 0, ro, FALSE, 0, 0)

-----------------------------------------------------------------------------
(* The transport: calls made on the Networker, and its answers *)

\* A failed ReadData.
ReadFailure == [ok |-> FALSE, bytes |-> <<>>]

ReadReply(b) == [ok |-> TRUE, bytes |-> b]

\* Network.ReadData(ident, addr, n), answered with `reply`.
ReadCall(ident, addr, n, reply) ==
    [kind |-> "read", ident |-> ident, expectAck |-> FALSE, addr |-> addr,
     n |-> n, params |-> <<>>, ok |-> reply.ok, bytes |-> reply.bytes]

\* Network.WriteData(ident, expectAck, params...), which succeeds iff wok.
\* params[1] is the address written to.
WriteCall(ident, expectAck, params, wok) ==
    [kind |-> "write", ident |-> ident, expectAck |-> expectAck,
     addr |-> params[1], n |-> Len(params) - 1, params |-> params, ok |-> wok,
     bytes |-> <<>>]

\* What a register read is answered with: a failure, or 1, 2 or 3 bytes.
RegisterReplies ==
    { ReadFailure, ReadReply(<<1>>), ReadReply(<<255, 3>>),
      ReadReply(<<7, 8, 9>>) }

\* A control table as the device could hold it; the seed picks the lock byte
\* (address 47): 0 for seed 209, 1 for seed 210.
DeviceTable(seed) == [i \in 1..tableSize |-> (i - 1 + seed) % 256]

\* What the bulk read of the table is answered with: a failure, a table of
\* the right size, or too few bytes.
TableReplies ==
    { ReadFailure, ReadReply(DeviceTable(209)), ReadReply(DeviceTable(210)),
      ReadReply(<<1, 2, 3>>) }

\* The identities a handle is constructed with.
InitIdents == {1, 254}

-----------------------------------------------------------------------------
(* The handle and what an operation on it yields *)

\* The handle as the operations read it.
Servo == [Ident |-> Ident, statusReturnLevel |-> statusReturnLevel,
          cache |-> cache, zeroAngle |-> zeroAngle]

\* What a call yields: the handle afterwards, the returned (value, error),
\* the transport calls issued and whether Network.Log was called.
Outcome(servo, err, val, cs, lg) ==
    [servo |-> servo, ret |-> [err |-> err, val |-> val], calls |-> cs,
     logged |-> lg]

\* The little-endian decoding of `length` bytes of the cache at `address`.
Decode(c, address, length) ==
    IF length = 2 THEN c[address] + 256 * c[address + 1] ELSE c[address]

\* updateCache that copies the bytes it got before it checks their number.
updateCache_CopyThenCheck(servo, reply) ==
    LET call == ReadCall(servo.Ident, 0, tableSize, reply)
        b == reply.bytes
        copied == [i \in 0..(tableSize - 1) |->
                     IF i + 1 <= Len(b) THEN b[i + 1] ELSE servo.cache[i]]
    IN  IF ~reply.ok
        THEN Outcome(servo, ErrTransport, 0, <<call>>, FALSE)
        ELSE IF Len(b) # tableSize
        THEN Outcome([servo EXCEPT !.cache = copied], ErrTableSize, 0,
                     <<call>>, FALSE)
        ELSE Outcome([servo EXCEPT !.cache = copied], NoError, 0, <<call>>, FALSE)

\* updateCache: one bulk read of the whole table into the cache.
updateCache(servo, reply) ==
    LET call == ReadCall(servo.Ident, 0, tableSize, reply)
        b == reply.bytes
    IN  IF ~reply.ok
        THEN Outcome(servo, ErrTransport, 0, <<call>>, FALSE)
        ELSE IF Len(b) # tableSize
        THEN Outcome(servo, ErrTableSize, 0, <<call>>, FALSE)
        ELSE Outcome([servo EXCEPT !.cache = [i \in 0..(tableSize - 1) |-> b[i + 1]]],
                     NoError, 0, <<call>>, FALSE)

\* NewServo: status return level 2, a zeroed cache, then updateCache, whose
\* error is dropped.
NewServo(ident, reply) ==
    LET s == [Ident |-> ident, statusReturnLevel |-> 2,
              cache |-> [i \in 0..(tableSize - 1) |-> 0], zeroAngle |-> 150]
        u == updateCache(s, reply)
    IN  Outcome(u.servo, NoError, 0, u.calls, FALSE)

\* getRegister with the status return level checked before the cacheable
\* branch: a cacheable read would fail at level 0.
getRegister_LevelGateFirst(servo, reg, reply) ==
    LET call == ReadCall(servo.Ident, reg.address, reg.length, reply)
        b == reply.bytes
    IN  IF reg.length # 1 /\ reg.length # 2
        THEN Outcome(servo, ErrRegLength, 0, <<>>, FALSE)
        ELSE IF servo.statusReturnLevel = 0
        THEN Outcome(servo, ErrStatusZero, 0, <<>>, FALSE)
        ELSE IF reg.cacheable
        THEN Outcome(servo, NoError,
                     Decode(servo.cache, reg.address, reg.length), <<>>, FALSE)
        ELSE IF ~reply.ok
        THEN Outcome(servo, ErrTransport, 0, <<call>>, FALSE)
        ELSE IF Len(b) = 1
        THEN Outcome([servo EXCEPT !.cache[reg.address] = b[1]],
                     NoError, b[1], <<call>>, FALSE)
        ELSE IF Len(b) = 2
        THEN Outcome([servo EXCEPT !.cache[reg.address] = b[1],
                                   !.cache[reg.address + 1] = b[2]],
                     NoError, b[1] + 256 * b[2], <<call>>, FALSE)
        ELSE Outcome(servo, ErrByteCount, 0, <<call>>, FALSE)

\* getRegister that forgets the high byte of a cached two-byte register.
getRegister_LowByteOnly(servo, reg, reply) ==
    LET call == ReadCall(servo.Ident, reg.address, reg.length, reply)
        b == reply.bytes
    IN  IF reg.length # 1 /\ reg.length # 2
        THEN Outcome(servo, ErrRegLength, 0, <<>>, FALSE)
        ELSE IF reg.cacheable
        THEN Outcome(servo, NoError, servo.cache[reg.address], <<>>, FALSE)
        ELSE IF servo.statusReturnLevel = 0
        THEN Outcome(servo, ErrStatusZero, 0, <<>>, FALSE)
        ELSE IF ~reply.ok
        THEN Outcome(servo, ErrTransport, 0, <<call>>, FALSE)
        ELSE IF Len(b) = 1
        THEN Outcome([servo EXCEPT !.cache[reg.address] = b[1]],
                     NoError, b[1], <<call>>, FALSE)
        ELSE IF Len(b) = 2
        THEN Outcome([servo EXCEPT !.cache[reg.address] = b[1],
                                   !.cache[reg.address + 1] = b[2]],
                     NoError, b[1] + 256 * b[2], <<call>>, FALSE)
        ELSE Outcome(servo, ErrByteCount, 0, <<call>>, FALSE)

\* getRegister that refuses live reads unless the level is 2.
getRegister_GateBelowTwo(servo, reg, reply) ==
    LET call == ReadCall(servo.Ident, reg.address, reg.length, reply)
        b == reply.bytes
    IN  IF reg.length # 1 /\ reg.length # 2
        THEN Outcome(servo, ErrRegLength, 0, <<>>, FALSE)
        ELSE IF reg.cacheable
        THEN Outcome(servo, NoError,
                     Decode(servo.cache, reg.address, reg.length), <<>>, FALSE)
        ELSE IF servo.statusReturnLevel # 2
        THEN Outcome(servo, ErrStatusZero, 0, <<>>, FALSE)
        ELSE IF ~reply.ok
        THEN Outcome(servo, ErrTransport, 0, <<call>>, FALSE)
        ELSE IF Len(b) = 1
        THEN Outcome([servo EXCEPT !.cache[reg.address] = b[1]],
                     NoError, b[1], <<call>>, FALSE)
        ELSE IF Len(b) = 2
        THEN Outcome([servo EXCEPT !.cache[reg.address] = b[1],
                                   !.cache[reg.address + 1] = b[2]],
                     NoError, b[1] + 256 * b[2], <<call>>, FALSE)
        ELSE Outcome(servo, ErrByteCount, 0, <<call>>, FALSE)

\* getRegister that reads a second time when the first read failed.
getRegister_RetryOnce(servo, reg, reply) ==
    LET call == ReadCall(servo.Ident, reg.address, reg.length, reply)
        b == reply.bytes
    IN  IF reg.length # 1 /\ reg.length # 2
        THEN Outcome(servo, ErrRegLength, 0, <<>>, FALSE)
        ELSE IF reg.cacheable
        THEN Outcome(servo, NoError,
                     Decode(servo.cache, reg.address, reg.length), <<>>, FALSE)
        ELSE IF servo.statusReturnLevel = 0
        THEN Outcome(servo, ErrStatusZero, 0, <<>>, FALSE)
        ELSE IF ~reply.ok
        THEN Outcome(servo, ErrTransport, 0, <<call, call>>, FALSE)
        ELSE IF Len(b) = 1
        THEN Outcome([servo EXCEPT !.cache[reg.address] = b[1]],
                     NoError, b[1], <<call>>, FALSE)
        ELSE IF Len(b) = 2
        THEN Outcome([servo EXCEPT !.cache[reg.address] = b[1],
                                   !.cache[reg.address + 1] = b[2]],
                     NoError, b[1] + 256 * b[2], <<call>>, FALSE)
        ELSE Outcome(servo, ErrByteCount, 0, <<call>>, FALSE)

\* getRegister: from the cache when the register is cacheable, else a live
\* read, which also patches the cache with the bytes it got.
getRegister(servo, reg, reply) ==
    LET call == ReadCall(servo.Ident, reg.address, reg.length, reply)
        b == reply.bytes
    IN  IF reg.length # 1 /\ reg.length # 2
        THEN Outcome(servo, ErrRegLength, 0, <<>>, FALSE)
        ELSE IF reg.cacheable
        THEN Outcome(servo, NoError,
                     Decode(servo.cache, reg.address, reg.length), <<>>, FALSE)
        ELSE IF servo.statusReturnLevel = 0
        THEN Outcome(servo, ErrStatusZero, 0, <<>>, FALSE)
        ELSE IF ~reply.ok
        THEN Outcome(servo, ErrTransport, 0, <<call>>, FALSE)
        ELSE IF Len(b) = 1
        THEN Outcome([servo EXCEPT !.cache[reg.address] = b[1]],
                     NoError, b[1], <<call>>, FALSE)
        ELSE IF Len(b) = 2
        THEN Outcome([servo EXCEPT !.cache[reg.address] = b[1],
                                   !.cache[reg.address + 1] = b[2]],
                     NoError, b[1] + 256 * b[2], <<call>>, FALSE)
        ELSE Outcome(servo, ErrByteCount, 0, <<call>>, FALSE)

\* writeData: a write addressed to the handle's identity, acknowledged iff
\* the shadow status return level is 2.
writeData(servo, params, wok) ==
    WriteCall(servo.Ident, servo.statusReturnLevel = 2, params, wok)

\* setRegister that patches only the low byte of a two-byte register.
setRegister_NoHighPatch(servo, reg, value, wok) ==
    IF reg.access = ro
    THEN Outcome(servo, ErrReadOnly, 0, <<>>, FALSE)
    ELSE IF value < reg.min
    THEN Outcome(servo, ErrTooLow, 0, <<>>, FALSE)
    ELSE IF value > reg.max
    THEN Outcome(servo, ErrTooHigh, 0, <<>>, FALSE)
    ELSE IF reg.length = 1
    THEN Outcome([servo EXCEPT !.cache[reg.address] = low(value)],
                 NoError, 0,
                 <<writeData(servo, <<reg.address, low(value)>>, wok)>>,
                 FALSE)
    ELSE IF reg.length = 2
    THEN Outcome([servo EXCEPT !.cache[reg.address] = low(value)],
                 NoError, 0,
                 <<writeData(servo, <<reg.address, low(value), high(value)>>, wok)>>,
                 FALSE)
    ELSE Outcome(servo, ErrRegLength, 0, <<>>, FALSE)

\* setRegister without the upper range check.
setRegister_NoMaxCheck(servo, reg, value, wok) ==
    IF reg.access = ro
    THEN Outcome(servo, ErrReadOnly, 0, <<>>, FALSE)
    ELSE IF value < reg.min
    THEN Outcome(servo, ErrTooLow, 0, <<>>, FALSE)
    ELSE IF reg.length = 1
    THEN Outcome([servo EXCEPT !.cache[reg.address] = low(value)],
                 NoError, 0,
                 <<writeData(servo, <<reg.address, low(value)>>, wok)>>,
                 FALSE)
    ELSE IF reg.length = 2
    THEN Outcome([servo EXCEPT !.cache[reg.address] = low(value),
                               !.cache[reg.address + 1] = high(value)],
                 NoError, 0,
                 <<writeData(servo, <<reg.address, low(value), high(value)>>, wok)>>,
                 FALSE)
    ELSE Outcome(servo, ErrRegLength, 0, <<>>, FALSE)

\* setRegister: access and range checks, then the write and the cache patch.
\* The error writeData returns is not looked at.
setRegister(servo, reg, value, wok) ==
    IF reg.access = ro
    THEN Outcome(servo, ErrReadOnly, 0, <<>>, FALSE)
    ELSE IF value < reg.min
    THEN Outcome(servo, ErrTooLow, 0, <<>>, FALSE)
    ELSE IF value > reg.max
    THEN Outcome(servo, ErrTooHigh, 0, <<>>, FALSE)
    ELSE IF reg.length = 1
    THEN Outcome([servo EXCEPT !.cache[reg.address] = low(value)],
                 NoError, 0,
                 <<writeData(servo, <<reg.address, low(value)>>, wok)>>,
                 FALSE)
    ELSE IF reg.length = 2
    THEN Outcome([servo EXCEPT !.cache[reg.address] = low(value),
                               !.cache[reg.address + 1] = high(value)],
                 NoError, 0,
                 <<writeData(servo, <<reg.address, low(value), high(value)>>, wok)>>,
                 FALSE)
    ELSE Outcome(servo, ErrRegLength, 0, <<>>, FALSE)

\* The outcome of a call that also called logMethod first.
Logged(out) == [out EXCEPT !.logged = TRUE]

SetTorqueEnable(servo, state, wok) ==
    Logged(setRegister(servo, registers.torqueEnable, btoi(state), wok))

SetLED(servo, state, wok) ==
    setRegister(servo, registers.led, btoi(state), wok)

SetGoalPosition(servo, pos, wok) ==
    LET reg == registers.goalPosition
    IN  IF pos < reg.min \/ pos > reg.max
        THEN Outcome(servo, ErrGoalRange, 0, <<>>, FALSE)
        ELSE setRegister(servo, reg, pos, wok)

SetMovingSpeed(servo, speed, wok) ==
    IF speed < 0 \/ speed > maxSpeed
    THEN Outcome(servo, ErrSpeedRange, 0, <<>>, FALSE)
    ELSE setRegister(servo, registers.movingSpeed, speed, wok)

\* SetLock without the look at the cached lock byte.
SetLock_NoLockCheck(servo, isLocked, wok) ==
    IF isLocked > 1 \/ isLocked < 0
    THEN Outcome(servo, ErrLockValue, 0, <<>>, FALSE)
    ELSE setRegister(servo, registers.lock, isLocked, wok)

SetLock(servo, isLocked, wok) ==
    LET reg == registers.lock
    IN  IF isLocked > 1 \/ isLocked < 0
        THEN Outcome(servo, ErrLockValue, 0, <<>>, FALSE)
        ELSE IF isLocked = 0 /\ servo.cache[reg.address] = 1
        THEN Outcome(servo, ErrLocked, 0, <<>>, FALSE)
        ELSE setRegister(servo, reg, isLocked, wok)

SetTorqueLimit(servo, limit, wok) ==
    LET call == writeData(servo, <<addrTorqueLimit, low(limit), high(limit)>>, wok)
    IN  IF limit < 0 \/ limit > 1023
        THEN Outcome(servo, ErrTorqueRange, 0, <<>>, TRUE)
        ELSE Outcome(servo, IF wok THEN NoError ELSE ErrTransport, 0,
                     <<call>>, TRUE)

\* SetStatusReturnLevel that never updates the shadow.
SetStatusReturnLevel_NoShadowUpdate(servo, value, wok) ==
    LET call == WriteCall(servo.Ident, value = 2,
                          <<addrStatusReturnLevel, low(value)>>, wok)
    IN  IF value < 0 \/ value > 2
        THEN Outcome(servo, ErrLevelValue, 0, <<>>, TRUE)
        ELSE Outcome(servo, IF wok THEN NoError ELSE ErrTransport, 0,
                     <<call>>, TRUE)

\* SetStatusReturnLevel that sets the shadow whether or not the write
\* succeeded.
SetStatusReturnLevel_ShadowFirst(servo, value, wok) ==
    LET call == WriteCall(servo.Ident, value = 2,
                          <<addrStatusReturnLevel, low(value)>>, wok)
    IN  IF value < 0 \/ value > 2
        THEN Outcome(servo, ErrLevelValue, 0, <<>>, TRUE)
        ELSE Outcome([servo EXCEPT !.statusReturnLevel = value],
                     IF wok THEN NoError ELSE ErrTransport, 0, <<call>>, TRUE)

\* SetStatusReturnLevel that writes through writeData, so with the current
\* level's acknowledgement policy.
SetStatusReturnLevel_CurrentAck(servo, value, wok) ==
    LET call == writeData(servo, <<addrStatusReturnLevel, low(value)>>, wok)
    IN  IF value < 0 \/ value > 2
        THEN Outcome(servo, ErrLevelValue, 0, <<>>, TRUE)
        ELSE IF ~wok
        THEN Outcome(servo, ErrTransport, 0, <<call>>, TRUE)
        ELSE Outcome([servo EXCEPT !.statusReturnLevel = value],
                     NoError, 0, <<call>>, TRUE)

\* SetStatusReturnLevel writes through the Networker directly: the write is
\* acknowledged iff the new level is 2.
SetStatusReturnLevel(servo, value, wok) ==
    LET call == WriteCall(servo.Ident, value = 2,
                          <<addrStatusReturnLevel, low(value)>>, wok)
    IN  IF value < 0 \/ value > 2
        THEN Outcome(servo, ErrLevelValue, 0, <<>>, TRUE)
        ELSE IF ~wok
        THEN Outcome(servo, ErrTransport, 0, <<call>>, TRUE)
        ELSE Outcome([servo EXCEPT !.statusReturnLevel = value],
                     NoError, 0, <<call>>, TRUE)

\* SetIdent that renames the handle whether or not the write succeeded.
SetIdent_RenameAnyway(servo, ident, wok) ==
    LET i == low(ident)
        call == writeData(servo, <<addrID, i>>, wok)
    IN  IF i < 0 \/ i > 252
        THEN Outcome(servo, ErrIdentValue, 0, <<>>, TRUE)
        ELSE Outcome([servo EXCEPT !.Ident = i],
                     IF wok THEN NoError ELSE ErrTransport, 0, <<call>>, TRUE)

SetIdent(servo, ident, wok) ==
    LET i == low(ident)
        call == writeData(servo, <<addrID, i>>, wok)
    IN  IF i < 0 \/ i > 252
        THEN Outcome(servo, ErrIdentValue, 0, <<>>, TRUE)
        ELSE IF ~wok
        THEN Outcome(servo, ErrTransport, 0, <<call>>, TRUE)
        ELSE Outcome([servo EXCEPT !.Ident = i], NoError, 0, <<call>>, TRUE)

-----------------------------------------------------------------------------
(* The angle interface. Angles are whole degrees. *)

\* int(f) of Go for the quotient n / d (d > 0): truncation toward zero.
TruncDiv(n, d) == IF n >= 0 THEN n \div d ELSE -((-n) \div d)

RECURSIVE normalizeAngle(_)
\* normalizeAngle: subtract or add 360 until the angle is neither above 180
\* nor below -180.
normalizeAngle(d) ==
    IF d > 180 THEN normalizeAngle(d - 360)
    ELSE IF d < -180 THEN normalizeAngle(d + 360)
    ELSE d

\* angleToPos: int((zeroAngle + angle) * angleToPosition). The constant
\* angleToPosition = 1 / (300 / 1023) is the float64 3.4099999999999997,
\* just below 341/100: the product for a nonzero multiple of 100 degrees
\* falls just short of the whole number 3.41 times it, and int() drops the
\* rest. For whole degrees with |zeroAngle + angle| < 700 this is the value
\* the float64 computation gives.
angleToPos(servo, angle) ==
    LET x == servo.zeroAngle + angle
        t == TruncDiv(341 * x, 100)
    IN  IF x # 0 /\ (341 * x) % 100 = 0
        THEN (IF t > 0 THEN t - 1 ELSE t + 1)
        ELSE t

\* SetZero: sets the origin angle; no transport call, no result.
SetZero(servo, offset) ==
    Outcome([servo EXCEPT !.zeroAngle = offset], NoError, 0, <<>>, FALSE)

\* MoveTo that writes the position it computed straight to the device.
MoveTo_DirectWrite(servo, angle, wok) ==
    LET pos == angleToPos(servo, normalizeAngle(angle))
    IN  Outcome([servo EXCEPT !.cache[addrGoalPosition] = low(pos),
                              !.cache[addrGoalPosition + 1] = high(pos)],
                IF wok THEN NoError ELSE ErrTransport, 0,
                <<writeData(servo, <<addrGoalPosition, low(pos), high(pos)>>, wok)>>,
                FALSE)

\* MoveTo: normalize the angle, convert it, hand it to SetGoalPosition.
MoveTo(servo, angle, wok) ==
    SetGoalPosition(servo, angleToPos(servo, normalizeAngle(angle)), wok)

-----------------------------------------------------------------------------
(* Inputs of the operations *)

\* The angles MoveTo and normalizeAngle are called with.
Angles ==
    { 90 * k + j : k \in (-MaxAngleSteps)..MaxAngleSteps, j \in {-1, 0, 1} }

\* The offsets SetZero is called with.
ZeroAngles == {150, 120, 121, 90}

\* Values setRegister is called with: around both ends of the range.
SetValues(reg) == {reg.min - 1, reg.min, reg.max, reg.max + 1}

Positions == {-1, 0, 511, 1023, 1024}
LockValues == {-1, 0, 1, 2}
TorqueLimits == {-1, 0, 1023, 1024}
Levels == {-1, 0, 1, 2, 3}
NewIdents == {-1, 2, 252, 253, 258}

-----------------------------------------------------------------------------
(* The state machine *)

\* What the successful SetStatusReturnLevel calls amount to after a call of
\* `name` with `arg` that returned `err`: silenced after a level of 0,
\* restored after a level of 2 that followed a silenced handle.
NextHist(name, arg, err) ==
    IF name = "SetStatusReturnLevel" /\ err = NoError
    THEN [silenced |-> arg = 0, restored |-> arg = 2 /\ hist.silenced]
    ELSE hist

\* A call of operation `name` with outcome `out` becomes the last operation,
\* in a run of at most `limit` operations.
Step(limit, name, reg, arg, out) ==
    /\ nops < limit
    /\ nops' = nops + 1
    /\ zeroAngle' = out.servo.zeroAngle
    /\ hist' = NextHist(name, arg, out.ret.err)
    /\ old' = Servo
    /\ Ident' = out.servo.Ident
    /\ statusReturnLevel' = out.servo.statusReturnLevel
    /\ cache' = out.servo.cache
    /\ op' = [name |-> name, reg |-> reg, arg |-> arg]
    /\ ret' = out.ret
    /\ calls' = out.calls
    /\ logged' = out.logged

Apply(name, reg, arg, out) == Step(MaxOps, name, reg, arg, out)

Init ==
    \E ident \in InitIdents, reply \in TableReplies :
        LET out == NewServo(ident, reply)
        IN  /\ Ident = out.servo.Ident
            /\ statusReturnLevel = out.servo.statusReturnLevel
            /\ cache = out.servo.cache
            /\ op = [name |-> "NewServo", reg |-> NoReg, arg |-> ident]
            /\ ret = out.ret
            /\ calls = out.calls
            /\ logged = out.logged
            /\ old = out.servo
            /\ nops = 0
            /\ zeroAngle = out.servo.zeroAngle
            /\ hist = [silenced |-> FALSE, restored |-> FALSE]

\* A refresh of the cache after construction.
CallUpdateCache ==
    \E reply \in TableReplies :
        Apply("updateCache", NoReg, 0, updateCache(Servo, reply))

\* Any named getter: getRegister on a descriptor.
CallGetRegister ==
    \E reg \in Registers, reply \in RegisterReplies :
        Apply("getRegister", reg, 0, getRegister(Servo, reg, reply))

CallSetRegister ==
    \E reg \in Registers, wok \in BOOLEAN :
        \E value \in SetValues(reg) :
            Apply("setRegister", reg, value, setRegister(Servo, reg, value, wok))

CallSetTorqueEnable ==
    \E state \in BOOLEAN, wok \in BOOLEAN :
        Apply("SetTorqueEnable", registers.torqueEnable, btoi(state),
              SetTorqueEnable(Servo, state, wok))

CallSetLED ==
    \E state \in BOOLEAN, wok \in BOOLEAN :
        Apply("SetLED", registers.led, btoi(state), SetLED(Servo, state, wok))

CallSetGoalPosition ==
    \E pos \in Positions, wok \in BOOLEAN :
        Apply("SetGoalPosition", registers.goalPosition, pos,
              SetGoalPosition(Servo, pos, wok))

CallSetMovingSpeed ==
    \E speed \in Positions, wok \in BOOLEAN :
        Apply("SetMovingSpeed", registers.movingSpeed, speed,
              SetMovingSpeed(Servo, speed, wok))

CallSetLock ==
    \E isLocked \in LockValues, wok \in BOOLEAN :
        Apply("SetLock", registers.lock, isLocked, SetLock(Servo, isLocked, wok))

CallSetTorqueLimit ==
    \E limit \in TorqueLimits, wok \in BOOLEAN :
        Apply("SetTorqueLimit", NoReg, limit, SetTorqueLimit(Servo, limit, wok))

CallSetStatusReturnLevel ==
    \E value \in Levels, wok \in BOOLEAN :
        Apply("SetStatusReturnLevel", NoReg, value,
              SetStatusReturnLevel(Servo, value, wok))

CallSetIdent ==
    \E ident \in NewIdents, wok \in BOOLEAN :
        Apply("SetIdent", NoReg, ident, SetIdent(Servo, ident, wok))

Next ==
    \/ CallUpdateCache
    \/ CallGetRegister
    \/ CallSetRegister
    \/ CallSetTorqueEnable
    \/ CallSetLED
    \/ CallSetGoalPosition
    \/ CallSetMovingSpeed
    \/ CallSetLock
    \/ CallSetTorqueLimit
    \/ CallSetStatusReturnLevel
    \/ CallSetIdent

Spec == Init /\ [][Next]_vars

\* Longer runs of status return level changes and register reads.
LevelRegisters ==
    { registers.modelNumber, registers.presentPosition,
      registers.presentTemperature }

LevelSetStatusReturnLevel ==
    \E value \in Levels, wok \in BOOLEAN :
        Step(MaxLevelOps, "SetStatusReturnLevel", NoReg, value,
             SetStatusReturnLevel(Servo, value, wok))

LevelGetRegister ==
    \E reg \in LevelRegisters, reply \in RegisterReplies :
        Step(MaxLevelOps, "getRegister", reg, 0, getRegister(Servo, reg, reply))

NextLevel ==
    \/ LevelSetStatusReturnLevel
    \/ LevelGetRegister

SpecLevel == Init /\ [][NextLevel]_vars

\* Runs of the angle interface.
MoveSetZero ==
    \E offset \in ZeroAngles :
        Step(MaxMoveOps, "SetZero", NoReg, offset, SetZero(Servo, offset))

MoveMoveTo ==
    \E angle \in Angles, wok \in BOOLEAN :
        Step(MaxMoveOps, "MoveTo", registers.goalPosition, angle,
             MoveTo(Servo, angle, wok))

\* A call of the function normalizeAngle: it returns the folded angle and
\* touches nothing.
MoveNormalizeAngle ==
    \E d \in Angles :
        Step(MaxMoveOps, "normalizeAngle", NoReg, d,
             Outcome(Servo, NoError, normalizeAngle(d), <<>>, FALSE))

NextMove ==
    \/ MoveSetZero
    \/ MoveMoveTo
    \/ MoveNormalizeAngle

SpecMove == Init /\ [][NextMove]_vars

-----------------------------------------------------------------------------
(* Properties *)

\* The operations that write through setRegister; for them op.reg is the
\* descriptor and op.arg the value handed to setRegister.
SetRegisterOps ==
    {"setRegister", "SetTorqueEnable", "SetLED", "SetGoalPosition",
     "SetMovingSpeed", "SetLock"}

\* The last operation issued a transport write that the transport rejected.
WriteFailed ==
    \E i \in 1..Len(calls) : calls[i].kind = "write" /\ ~calls[i].ok

\* The last operation left the handle as it was.
HandleUnchanged ==
    /\ cache = old.cache
    /\ Ident = old.Ident
    /\ statusReturnLevel = old.statusReturnLevel

\* C1: a setRegister on a read-write register of width 1 or 2 whose
\* transport write fails returns that error to the caller.
C1_SetReturnsWriteError ==
    ( /\ op.name = "setRegister"
      /\ op.reg.access = rw
      /\ op.reg.length \in {1, 2}
      /\ WriteFailed )
    => ret.err = ErrTransport

\* C2: when the transport write of setRegister, or of a setter built on
\* it, fails, every byte of the cache is as it was before the call.
C2_FailedWriteKeepsCache ==
    (op.name \in SetRegisterOps /\ WriteFailed) => cache = old.cache

\* C3: after a set that returns success on a register of width w at address
\* a with value v, cache[a] is the low byte of v, cache[a+1] is the high byte
\* of v when w = 2, and the little-endian decoding of the cache at (a, w)
\* is v.
C3_SetPatchesCache ==
    (op.name \in SetRegisterOps /\ ret.err = NoError) =>
        LET a == op.reg.address
            w == op.reg.length
            v == op.arg
        IN  /\ cache[a] = v % 256
            /\ w = 2 => cache[a + 1] = (v \div 256) % 256
            /\ v = cache[a] + (IF w = 2 THEN 256 * cache[a + 1] ELSE 0)

\* A successful setRegister of 1023 on a two-byte register: both bytes
\* of the value are nonzero.
C3_Witness ==
    /\ op.name = "setRegister"
    /\ ret.err = NoError
    /\ op.reg.length = 2
    /\ op.arg = 1023
    /\ cache[op.reg.address] = 255
    /\ cache[op.reg.address + 1] = 3

\* C4 as stated: for every read-write register, cacheable or not, a
\* successful set(v) immediately followed by a get on the same register
\* returns v and the get issues no transport read.
C4_SetThenGetAnyRegister ==
    [][ ( /\ op.name \in SetRegisterOps
          /\ ret.err = NoError
          /\ op'.name = "getRegister"
          /\ op'.reg = op.reg )
        => ( /\ ret'.err = NoError
             /\ ret'.val = op.arg
             /\ calls' = <<>> ) ]_vars

\* C4 as amended: for every read-write register that is cacheable, a
\* successful set(v) immediately followed by a get on the same register
\* returns v and the get issues no transport read.
C4_SetThenGetCacheable ==
    [][ ( /\ op.name \in SetRegisterOps
          /\ ret.err = NoError
          /\ op.reg.cacheable
          /\ op'.name = "getRegister"
          /\ op'.reg = op.reg )
        => ( /\ ret'.err = NoError
             /\ ret'.val = op.arg
             /\ calls' = <<>> ) ]_vars

\* A get of the cacheable two-byte cwAngleLimit that returns 1023 as the
\* second operation: no control table read at construction holds 1023
\* there, so the first operation was the set of 1023.
C4_Witness ==
    /\ nops = 2
    /\ op.name = "getRegister"
    /\ op.reg = registers.cwAngleLimit
    /\ ret.err = NoError
    /\ ret.val = 1023
    /\ calls = <<>>

\* C5: a get on a cacheable descriptor of width 1 or 2 makes no transport
\* call, succeeds, and returns the little-endian decoding of the cache
\* bytes at the descriptor's address, whatever the status return level.
C5_CacheableGetIsLocal ==
    ( /\ op.name = "getRegister"
      /\ op.reg.cacheable
      /\ op.reg.length \in {1, 2} )
    => /\ calls = <<>>
       /\ ret.err = NoError
       /\ ret.val = old.cache[op.reg.address]
                    + (IF op.reg.length = 2
                       THEN 256 * old.cache[op.reg.address + 1] ELSE 0)

\* A get of a cacheable two-byte register while the shadow level is 0,
\* with a nonzero high byte in the cache.
C5_Witness ==
    /\ op.name = "getRegister"
    /\ op.reg.cacheable
    /\ op.reg.length = 2
    /\ old.statusReturnLevel = 0
    /\ old.cache[op.reg.address + 1] # 0
    /\ ret.err = NoError
    /\ ret.val >= 256

\* C6: a get on a non-cacheable descriptor of width 1 or 2 issues exactly
\* one transport read, to the current identity, at the descriptor's address,
\* for width bytes, when the shadow level is 1 or 2; at level 0 it fails,
\* issues no transport call and leaves the cache unchanged.
C6_LiveGetReadsOnce ==
    ( /\ op.name = "getRegister"
      /\ ~op.reg.cacheable
      /\ op.reg.length \in {1, 2} )
    => /\ old.statusReturnLevel \in {1, 2} =>
            /\ Len(calls) = 1
            /\ calls[1].kind = "read"
            /\ calls[1].ident = old.Ident
            /\ calls[1].addr = op.reg.address
            /\ calls[1].n = op.reg.length
       /\ old.statusReturnLevel = 0 =>
            /\ ret.err # NoError
            /\ calls = <<>>
            /\ cache = old.cache

\* A live read of a two-byte register at shadow level 1.
C6_Witness ==
    /\ op.name = "getRegister"
    /\ ~op.reg.cacheable
    /\ op.reg.length = 2
    /\ old.statusReturnLevel = 1
    /\ Len(calls) = 1
    /\ calls[1].kind = "read"
    /\ calls[1].n = 2
    /\ ret.err = NoError

\* The last call was a set that local validation rejects: a read-only
\* descriptor, a value outside [min, max], a width other than 1 or 2, a
\* status return level outside 0..2, an identity whose low byte is above
\* 252, a lock value outside {0, 1}.
RejectedLocally ==
    \/ /\ op.name = "setRegister"
       /\ \/ op.reg.access = ro
          \/ op.arg < op.reg.min
          \/ op.arg > op.reg.max
          \/ op.reg.length \notin {1, 2}
    \/ op.name = "SetStatusReturnLevel" /\ op.arg \notin {0, 1, 2}
    \/ op.name = "SetIdent" /\ op.arg % 256 > 252
    \/ op.name = "SetLock" /\ op.arg \notin {0, 1}

\* C7: a set rejected by local validation returns an error, issues no
\* transport read or write, and changes neither the cache, the identity nor
\* the shadow status return level.
C7_LocalRejectionHasNoEffect ==
    RejectedLocally =>
        /\ ret.err # NoError
        /\ calls = <<>>
        /\ HandleUnchanged

\* A setRegister of max + 1 on a read-write register of width 2.
C7_Witness ==
    /\ op.name = "setRegister"
    /\ op.reg.access = rw
    /\ op.reg.length = 2
    /\ op.arg = op.reg.max + 1
    /\ ret.err = ErrTooHigh
    /\ calls = <<>>

\* C8: the shadow status return level is 2 after construction, is always
\* 0, 1 or 2, and after an operation it is the value given to a valid
\* SetStatusReturnLevel whose write succeeded, and else what it was before.
C8_ShadowLevelLifecycle ==
    /\ op.name = "NewServo" => statusReturnLevel = 2
    /\ statusReturnLevel \in {0, 1, 2}
    /\ statusReturnLevel =
         IF /\ op.name = "SetStatusReturnLevel"
            /\ op.arg \in {0, 1, 2}
            /\ ~WriteFailed
         THEN op.arg
         ELSE old.statusReturnLevel

\* The shadow level goes from 0 to 1 by a SetStatusReturnLevel(1) whose
\* write succeeded.
C8_Witness ==
    /\ op.name = "SetStatusReturnLevel"
    /\ op.arg = 1
    /\ old.statusReturnLevel = 0
    /\ statusReturnLevel = 1
    /\ Len(calls) = 1
    /\ calls[1].ok

\* C9: the write of SetStatusReturnLevel(v) expects an acknowledgement iff
\* v = 2; every other write expects one iff the shadow level at the time of
\* the call is 2.
C9_WriteAckPolicy ==
    \A i \in 1..Len(calls) :
        calls[i].kind = "write" =>
            calls[i].expectAck =
                IF op.name = "SetStatusReturnLevel"
                THEN op.arg = 2
                ELSE old.statusReturnLevel = 2

\* SetStatusReturnLevel(2) at shadow level 0 writes expecting an
\* acknowledgement.
C9_Witness ==
    /\ op.name = "SetStatusReturnLevel"
    /\ op.arg = 2
    /\ old.statusReturnLevel = 0
    /\ Len(calls) = 1
    /\ calls[1].kind = "write"
    /\ calls[1].expectAck

\* C10: SetLock(0) fails with no transport call and no state change when
\* the cache's lock byte is 1; when it is 0, SetLock(0) succeeds and issues
\* exactly one transport write.
C10_UnlockGuardedByCache ==
    (op.name = "SetLock" /\ op.arg = 0) =>
        /\ old.cache[registers.lock.address] = 1 =>
            /\ ret.err # NoError
            /\ calls = <<>>
            /\ HandleUnchanged
        /\ old.cache[registers.lock.address] = 0 =>
            /\ ret.err = NoError
            /\ Len(calls) = 1
            /\ calls[1].kind = "write"

\* SetLock(0) as the second operation, refused because the cache's lock
\* byte is 1.
C10_Witness ==
    /\ nops = 2
    /\ op.name = "SetLock"
    /\ op.arg = 0
    /\ old.cache[registers.lock.address] = 1
    /\ ret.err = ErrLocked
    /\ calls = <<>>

\* Every transport call of the last operation was addressed to the
\* identity the handle held when the operation was called.
AddressedToOldIdent ==
    \A i \in 1..Len(calls) : calls[i].ident = old.Ident

\* C11: SetIdent(n) addresses its write to the identity held before the
\* call; the identity becomes the low byte of n only if that write succeeds
\* and is unchanged otherwise; every operation addresses its transport
\* calls to the identity the handle holds when it is called.
C11_RenameOnlyAfterWrite ==
    /\ AddressedToOldIdent
    /\ op.name = "SetIdent" =>
        Ident = IF /\ op.arg % 256 <= 252
                   /\ Len(calls) = 1
                   /\ calls[1].kind = "write"
                   /\ calls[1].ok
                THEN op.arg % 256
                ELSE old.Ident

\* A SetIdent whose write, addressed to the old identity, failed: the
\* identity is still the old one and not the one asked for.
C11_Witness ==
    /\ op.name = "SetIdent"
    /\ Len(calls) = 1
    /\ calls[1].kind = "write"
    /\ ~calls[1].ok
    /\ calls[1].ident = old.Ident
    /\ ret.err = ErrTransport
    /\ Ident = old.Ident
    /\ Ident # op.arg % 256

\* C12: a refresh that fails, because the read fails or because the number
\* of bytes returned is not the table size, leaves every cache byte
\* unchanged; a refresh that succeeds makes every cache byte equal to the
\* byte returned for it.
C12_RefreshAllOrNothing ==
    op.name = "updateCache" =>
        /\ Len(calls) = 1
        /\ calls[1].kind = "read"
        /\ IF calls[1].ok /\ Len(calls[1].bytes) = tableSize
           THEN /\ ret.err = NoError
                /\ \A i \in 0..(tableSize - 1) : cache[i] = calls[1].bytes[i + 1]
           ELSE /\ ret.err # NoError
                /\ cache = old.cache

\* A refresh answered with three bytes, on a cache that holds a table read
\* earlier: it fails and the cache keeps that table.
C12_Witness ==
    /\ op.name = "updateCache"
    /\ Len(calls) = 1
    /\ calls[1].ok
    /\ Len(calls[1].bytes) = 3
    /\ ret.err = ErrTableSize
    /\ cache = old.cache
    /\ cache[0] = 209

\* C13: a get on a non-cacheable descriptor of width w whose read succeeds
\* but returns a number of bytes other than w fails and does not modify the
\* cache.
C13_WrongByteCountFails ==
    ( /\ op.name = "getRegister"
      /\ ~op.reg.cacheable
      /\ op.reg.length \in {1, 2}
      /\ Len(calls) = 1
      /\ calls[1].ok
      /\ Len(calls[1].bytes) # op.reg.length )
    => /\ ret.err # NoError
       /\ cache = old.cache

\* C15: the handle's identity is within 0..252 in every reachable state.
C15_IdentInRange ==
    Ident \in 0..252

\* The operations of the handle that write a register of the device.
WriteOps ==
    SetRegisterOps \cup {"SetTorqueLimit", "SetStatusReturnLevel", "SetIdent"}

\* C18: after a write operation returns success, the cache bytes at the
\* written address equal the bytes written to the device.
C18_SuccessfulWriteIsCached ==
    ( /\ op.name \in WriteOps
      /\ ret.err = NoError
      /\ Len(calls) = 1
      /\ calls[1].kind = "write" )
    => \A k \in 2..Len(calls[1].params) :
           cache[calls[1].addr + k - 2] = calls[1].params[k]

\* C19: no operation retries: a call issues at most one transport read or
\* write, none when it is served from the cache or rejected locally, and
\* a getter or refresh whose read failed returns the transport's error.
C19_NoRetries ==
    /\ Len(calls) <= 1
    /\ RejectedLocally => calls = <<>>
    /\ (op.name = "getRegister" /\ op.reg.cacheable) => calls = <<>>
    /\ ( /\ op.name # "NewServo"
         /\ Len(calls) = 1
         /\ calls[1].kind = "read"
         /\ ~calls[1].ok )
       => ret.err = ErrTransport

\* A getter whose one read failed: the error is returned after that one
\* read.
C19_Witness ==
    /\ op.name = "getRegister"
    /\ Len(calls) = 1
    /\ calls[1].kind = "read"
    /\ ~calls[1].ok
    /\ ret.err = ErrTransport

\* C20: a get or a set on a register of width w at address a changes no
\* cache byte outside [a, a+w), and neither the identity nor the shadow
\* status return level; a get on a cacheable register changes nothing.
C20_AccessFrame ==
    (op.name \in SetRegisterOps \cup {"getRegister"}) =>
        /\ \A i \in 0..(tableSize - 1) :
               (i < op.reg.address \/ i >= op.reg.address + op.reg.length)
               => cache[i] = old.cache[i]
        /\ Ident = old.Ident
        /\ statusReturnLevel = old.statusReturnLevel
        /\ (op.name = "getRegister" /\ op.reg.cacheable) => cache = old.cache

\* C14: from a successful SetStatusReturnLevel(0) until a later
\* SetStatusReturnLevel succeeds with 1 or 2, every get on a non-cacheable
\* register fails without a transport call; once a SetStatusReturnLevel(2)
\* has succeeded after that, a non-cacheable get issues a live read again
\* and returns the value the device answered with.
C14_SilencedUntilRestored ==
    [][ ( /\ op'.name = "getRegister"
          /\ ~op'.reg.cacheable
          /\ op'.reg.length \in {1, 2} )
        => /\ hist.silenced =>
                /\ ret'.err # NoError
                /\ calls' = <<>>
           /\ hist.restored =>
                /\ Len(calls') = 1
                /\ calls'[1].kind = "read"
                /\ ( calls'[1].ok /\ Len(calls'[1].bytes) = op'.reg.length )
                   => /\ ret'.err = NoError
                      /\ ret'.val = calls'[1].bytes[1]
                           + (IF op'.reg.length = 2
                              THEN 256 * calls'[1].bytes[2] ELSE 0) ]_vars

\* The fourth operation of a run: a live read of the two-byte
\* presentPosition that returns the device's 1023, on a handle that was
\* silenced by SetStatusReturnLevel(0) and restored by
\* SetStatusReturnLevel(2).
C14_Witness ==
    /\ nops = 4
    /\ hist.restored
    /\ op.name = "getRegister"
    /\ op.reg = registers.presentPosition
    /\ old.statusReturnLevel = 2
    /\ Len(calls) = 1
    /\ calls[1].bytes = <<255, 3>>
    /\ ret.err = NoError
    /\ ret.val = 1023

\* The goal position a write of the last operation carries.
WrittenPosition(call) == call.params[2] + 256 * call.params[3]

\* C16: MoveTo never issues a transport write whose goal position lies
\* outside the goal-position descriptor's [min, max], whatever the angle and
\* the zero offset; when the position computed from the normalized angle is
\* out of range it returns an error, with no transport call and no cache
\* change, and when it is in range the one write carries that position.
C16_MoveToStaysInRange ==
    op.name = "MoveTo" =>
        LET reg == registers.goalPosition
            pos == angleToPos(old, normalizeAngle(op.arg))
        IN  /\ \A i \in 1..Len(calls) :
                   /\ calls[i].kind = "write"
                   /\ calls[i].addr = reg.address
                   /\ WrittenPosition(calls[i]) \in reg.min..reg.max
            /\ (pos < reg.min \/ pos > reg.max) =>
                   /\ ret.err # NoError
                   /\ calls = <<>>
                   /\ cache = old.cache
            /\ pos \in reg.min..reg.max =>
                   /\ Len(calls) = 1
                   /\ WrittenPosition(calls[1]) = pos

\* MoveTo(181) after SetZero(120): the angle folds to -179, the position
\* -201 is out of range, and MoveTo fails without a transport call.
C16_Witness ==
    /\ op.name = "MoveTo"
    /\ op.arg = 181
    /\ old.zeroAngle = 120
    /\ ret.err = ErrGoalRange
    /\ calls = <<>>
    /\ cache = old.cache

\* C17: normalizeAngle(d) is in the half-open interval
\* [-180, 180), differs from d by a multiple of 360, and
\* normalizeAngle(180) = -180.
C17_NormalizeHalfOpen ==
    op.name = "normalizeAngle" =>
        /\ ret.val >= -180
        /\ ret.val < 180
        /\ (ret.val - op.arg) % 360 = 0
        /\ op.arg = 180 => ret.val = -180

====
